---- MODULE Spec2Model ----
(***************************************************************************)
(* Theme resolution of helix-view (theme.rs): palette resolver, style      *)
(* attribute parser, scope table builder, inheritance merger, Theme        *)
(* lookups and the Loader.                                                 *)
(*                                                                         *)
(* Strings are sequences of characters; a character is a one-character     *)
(* TLA+ string.  String-level operations of the code that work on bytes    *)
(* (len, slicing, from_str_radix) go through the UTF-8 encoding Utf8.      *)
(***************************************************************************)
EXTENDS Integers, Sequences, FiniteSets, TLC

VARIABLES
    pc,         \* position of the run: which operation acted last
    input,      \* the raw value(s) handed to the operation under study
    palette,    \* ThemePalette in use (a map name -> Color), or the outcome of building it
    theme,      \* the Theme built / loaded, or the outcome of building it
    call,       \* the last query: its name and argument
    ret,        \* what the last query returned
    lazy,       \* the Lazy cells DEFAULT_THEME and BASE16_DEFAULT_THEME
    lookups     \* the names load_flavor has looked up in the theme directories

vars == <<pc, input, palette, theme, call, ret, lazy, lookups>>

(***************************************************************************)
(* Bounds                                                                  *)
(***************************************************************************)
MaxChunks == 4      \* colour tokens are made of at most this many chunks
MaxScopeLen == 4    \* queried scope strings have at most this many characters
MaxEntries == 2     \* scope entries per document

(***************************************************************************)
(* Characters and strings                                                  *)
(***************************************************************************)
Range(f) == {f[i] : i \in DOMAIN f}

LowerCase == <<"a","b","c","d","e","f","g","h","i","j","k","l","m",
               "n","o","p","q","r","s","t","u","v","w","x","y","z">>
Digits == <<"0","1","2","3","4","5","6","7","8","9">>
UpperCase == <<"A","B","C","D","E","F","G">>

IndexOf(seq, c) == CHOOSE i \in 1..Len(seq) : seq[i] = c

AsciiChars == Range(LowerCase) \cup Range(Digits) \cup Range(UpperCase)
                \cup {"#", "+", "-", ".", "_"}

\* The byte of an ASCII character.
Code ==
    [c \in AsciiChars |->
        CASE c \in Range(LowerCase) -> 96 + IndexOf(LowerCase, c)
          [] c \in Range(Digits)    -> 47 + IndexOf(Digits, c)
          [] c \in Range(UpperCase) -> 64 + IndexOf(UpperCase, c)
          [] c = "#" -> 35
          [] c = "+" -> 43
          [] c = "-" -> 45
          [] c = "." -> 46
          [] c = "_" -> 95]

\* UTF-8 encoding of one character; U+00E9 is the one two-byte character used.
Utf8Char(c) == IF c = "é" THEN <<195, 169>> ELSE <<Code[c]>>

RECURSIVE Utf8(_)
Utf8(s) == IF s = <<>> THEN <<>> ELSE Utf8Char(Head(s)) \o Utf8(Tail(s))

\* str::is_char_boundary on the encoded string.
IsCharBoundary(bytes, i) ==
    \/ i = 0
    \/ i = Len(bytes)
    \/ /\ i < Len(bytes)
       /\ ~(bytes[i + 1] >= 128 /\ bytes[i + 1] < 192)

\* &s[a..b] panics unless both ends are character boundaries.
SliceOk(bytes, a, b) ==
    a <= b /\ b <= Len(bytes) /\ IsCharBoundary(bytes, a) /\ IsCharBoundary(bytes, b)

Slice(bytes, a, b) == SubSeq(bytes, a + 1, b)

StartsWith(s, c) == Len(s) > 0 /\ s[1] = c

\* Byte-wise lexicographic order of strings: the iteration order of a toml Map.
RECURSIVE BytesLess(_, _)
BytesLess(a, b) ==
    IF b = <<>> THEN FALSE
    ELSE IF a = <<>> THEN TRUE
    ELSE IF Head(a) # Head(b) THEN Head(a) < Head(b)
    ELSE BytesLess(Tail(a), Tail(b))

StrLess(s, t) == BytesLess(Utf8(s), Utf8(t))

\* The keys of a map in iteration order (ascending).
RECURSIVE SortedKeys(_)
MinKey(keys) == CHOOSE k \in keys : \A o \in keys \ {k} : StrLess(k, o)
SortedFrom(keys, first) == <<first>> \o SortedKeys(keys \ {first})
SortedKeys(keys) == IF keys = {} THEN <<>> ELSE SortedFrom(keys, MinKey(keys))

(***************************************************************************)
(* Results                                                                 *)
(***************************************************************************)
\* Result<T, String>: the error keeps the kind of message and the text it carries.
\* Panic is the outcome of a call that unwinds instead of returning.
NoErr == [kind |-> "", text |-> <<>>]
Ok(v) == [tag |-> "Ok", val |-> v, why |-> NoErr]
Err(kind, text) == [tag |-> "Err", val |-> <<>>, why |-> [kind |-> kind, text |-> text]]
Panic == [tag |-> "Panic", val |-> <<>>, why |-> NoErr]

\* Option<T>
Some(v) == [some |-> TRUE, v |-> v]
None == [some |-> FALSE, v |-> <<>>]

(***************************************************************************)
(* toml::Value                                                             *)
(***************************************************************************)
VString(s) == [kind |-> "String", v |-> s]
VInteger(n) == [kind |-> "Integer", v |-> n]
VArray(items) == [kind |-> "Array", v |-> items]
VTable(map) == [kind |-> "Table", v |-> map]

EmptyMap == <<>>
MapInsert(m, k, v) == [x \in DOMAIN m \cup {k} |-> IF x = k THEN v ELSE m[x]]
MapRemove(m, k) == [x \in DOMAIN m \ {k} |-> m[x]]
\* HashMap::extend: the entries of over replace those of base.
MapExtend(base, over) ==
    [x \in DOMAIN base \cup DOMAIN over |-> IF x \in DOMAIN over THEN over[x] ELSE base[x]]
MapExtendBaseWins(base, over) ==
    [x \in DOMAIN base \cup DOMAIN over |-> IF x \in DOMAIN base THEN base[x] ELSE over[x]]

(***************************************************************************)
(* Colours                                                                 *)
(***************************************************************************)
Named(n) == [tag |-> n, r |-> 0, g |-> 0, b |-> 0]
Rgb(r, g, b) == [tag |-> "Rgb", r |-> r, g |-> g, b |-> b]
NoColor == Named("None")

\* char::to_digit(16) on a byte: 16 when the byte is no hex digit.
ToDigit16(byte) ==
    IF byte >= 48 /\ byte <= 57 THEN byte - 48
    ELSE IF byte >= 97 /\ byte <= 102 THEN byte - 87
    ELSE IF byte >= 65 /\ byte <= 70 THEN byte - 55
    ELSE 16

RECURSIVE DigitsValue(_, _)
DigitsValue(digits, acc) ==
    IF digits = <<>> THEN acc
    ELSE DigitsValue(Tail(digits), acc * 16 + ToDigit16(Head(digits)))

\* u8::from_str_radix, the value: it has to fit a byte.
CheckedByte(n) == IF n > 255 THEN Err("overflow", <<>>) ELSE Ok(n)

\* u8::from_str_radix, the digits after the sign.
ParseDigits(digits) ==
    IF \E i \in 1..Len(digits) : ToDigit16(digits[i]) = 16
    THEN Err("invalid digit", <<>>)
    ELSE CheckedByte(DigitsValue(digits, 0))

\* u8::from_str_radix(src, 16): an optional leading '+', then hex digits.
FromStrRadix16(src) ==
    IF src = <<>> THEN Err("empty", <<>>)
    ELSE IF Len(src) = 1 /\ src[1] \in {43, 45} THEN Err("invalid digit", <<>>)
    ELSE ParseDigits(IF src[1] = 43 THEN Tail(src) ELSE src)

\* hex_string_to_rgb: the slices &s[1..3], &s[3..5], &s[5..7] and their values.
PairsOk(bytes) == \A i \in 1..3 : SliceOk(bytes, 2 * i - 1, 2 * i + 1)
BytePairs(bytes) == [i \in 1..3 |-> FromStrRadix16(Slice(bytes, 2 * i - 1, 2 * i + 1))]

\* Mutant: the byte pairs are read in the order blue, green, red.
RgbOfPairs_bgr(s, pairs) ==
    IF \A i \in 1..3 : pairs[i].tag = "Ok"
    THEN Ok(Rgb(pairs[3].val, pairs[2].val, pairs[1].val))
    ELSE Err("malformed hexcode", s)

\* hex_string_to_rgb: the colour when the three pairs parsed, the error otherwise.
RgbOfPairs(s, pairs) ==
    IF \A i \in 1..3 : pairs[i].tag = "Ok"
    THEN Ok(Rgb(pairs[1].val, pairs[2].val, pairs[3].val))
    ELSE Err("malformed hexcode", s)

\* hex_string_to_rgb on the string and its bytes.  The length test is in
\* bytes, and a slice that cuts a character panics.
HexBytesToRgb(s, bytes) ==
    IF StartsWith(s, "#") /\ Len(bytes) >= 7
    THEN IF ~PairsOk(bytes) THEN Panic ELSE RgbOfPairs(s, BytePairs(bytes))
    ELSE Err("malformed hexcode", s)

\* ThemePalette::hex_string_to_rgb
hex_string_to_rgb(s) == HexBytesToRgb(s, Utf8(s))

(***************************************************************************)
(* ThemePalette                                                            *)
(***************************************************************************)
S_black == <<"b","l","a","c","k">>
S_red == <<"r","e","d">>
S_green == <<"g","r","e","e","n">>
S_yellow == <<"y","e","l","l","o","w">>
S_blue == <<"b","l","u","e">>
S_magenta == <<"m","a","g","e","n","t","a">>
S_cyan == <<"c","y","a","n">>
S_gray == <<"g","r","a","y">>
S_white == <<"w","h","i","t","e">>
S_light == <<"l","i","g","h","t","-">>

\* impl Default for ThemePalette: the 16 built-in names.
DefaultPalette ==
    [n \in {S_black, S_red, S_green, S_yellow, S_blue, S_magenta, S_cyan, S_gray,
            S_light \o S_red, S_light \o S_green, S_light \o S_yellow,
            S_light \o S_blue, S_light \o S_magenta, S_light \o S_cyan,
            S_light \o S_gray, S_white} |->
        CASE n = S_black -> Named("Black")
          [] n = S_red -> Named("Red")
          [] n = S_green -> Named("Green")
          [] n = S_yellow -> Named("Yellow")
          [] n = S_blue -> Named("Blue")
          [] n = S_magenta -> Named("Magenta")
          [] n = S_cyan -> Named("Cyan")
          [] n = S_gray -> Named("Gray")
          [] n = S_light \o S_red -> Named("LightRed")
          [] n = S_light \o S_green -> Named("LightGreen")
          [] n = S_light \o S_yellow -> Named("LightYellow")
          [] n = S_light \o S_blue -> Named("LightBlue")
          [] n = S_light \o S_magenta -> Named("LightMagenta")
          [] n = S_light \o S_cyan -> Named("LightCyan")
          [] n = S_light \o S_gray -> Named("LightGray")
          [] n = S_white -> Named("White")]

\* Mutant: the built-in colour wins over the document's.
ThemePalette_new_builtin_wins(map) == MapExtendBaseWins(DefaultPalette, map)

\* ThemePalette::new: the built-in names, extended by the given map.
ThemePalette_new(map) == MapExtend(DefaultPalette, map)

\* ThemePalette::parse_value_as_str
parse_value_as_str(value) ==
    IF value.kind = "String" THEN Ok(value.v) ELSE Err("unrecognized value", value)

\* parse_color on the string: the palette first, the hex code otherwise.
ColorOfStr(pal, s) ==
    IF s.tag # "Ok" THEN s
    ELSE IF s.val \in DOMAIN pal THEN Ok(pal[s.val])
    ELSE hex_string_to_rgb(s.val)

\* ThemePalette::parse_color
parse_color(pal, value) == ColorOfStr(pal, parse_value_as_str(value))

\* The loop of TryFrom<Value> for ThemePalette over the entries in map order;
\* the first entry that is no string or no hex code ends it.
RECURSIVE PaletteEntries(_, _, _)
InsertColor(map, keys, acc, color) ==
    IF color.tag # "Ok" THEN color
    ELSE PaletteEntries(map, Tail(keys), MapInsert(acc, Head(keys), color.val))

EntryColor(map, keys, acc, value) ==
    IF value.tag # "Ok" THEN value
    ELSE InsertColor(map, keys, acc, hex_string_to_rgb(value.val))

PaletteEntries(map, keys, acc) ==
    IF keys = <<>> THEN Ok(acc)
    ELSE EntryColor(map, keys, acc, parse_value_as_str(map[Head(keys)]))

\* TryFrom<Value> for ThemePalette, the end: Ok(Self::new(palette)).
NewPalette(parsed) ==
    IF parsed.tag = "Ok" THEN Ok(ThemePalette_new(parsed.val)) ELSE parsed

\* impl TryFrom<Value> for ThemePalette
ThemePalette_try_from(value) ==
    IF value.kind # "Table" THEN Ok(DefaultPalette)
    ELSE NewPalette(PaletteEntries(value.v, SortedKeys(DOMAIN value.v), EmptyMap))

\* unwrap_or_else in build_theme_values: an error gives the built-in palette;
\* a panic is not caught.
UnwrapOrDefault(p) == IF p.tag = "Err" THEN Ok(DefaultPalette) ELSE p

\* build_theme_values, the palette made from the `palette` value.
PaletteOrDefault(value) == UnwrapOrDefault(ThemePalette_try_from(value))

(***************************************************************************)
(* Style (graphics.rs) and the style attribute parser                      *)
(***************************************************************************)
S_fg == <<"f","g">>
S_bg == <<"b","g">>
S_underline == <<"u","n","d","e","r","l","i","n","e">>
S_modifiers == <<"m","o","d","i","f","i","e","r","s">>
S_color == <<"c","o","l","o","r">>
S_style == <<"s","t","y","l","e">>
S_underlined == S_underline \o <<"d">>
S_bold == <<"b","o","l","d">>
S_dim == <<"d","i","m">>
S_italic == <<"i","t","a","l","i","c">>
S_blink == <<"_","b","l","i","n","k">>
S_slow_blink == <<"s","l","o","w">> \o S_blink
S_rapid_blink == <<"r","a","p","i","d">> \o S_blink
S_reversed == <<"r","e","v","e","r","s","e","d">>
S_hidden == <<"h","i","d","d","e","n">>
S_crossed_out == <<"c","r","o","s","s","e","d","_","o","u","t">>
S_line == <<"l","i","n","e">>
S_curl == <<"c","u","r","l">>
S_dashed == <<"d","a","s","h","e","d">>
S_dotted == <<"d","o","t","t","e","d">>
S_double_line == <<"d","o","u","b","l","e","_">> \o S_line

\* Style::default()
DefaultStyle ==
    [fg |-> NoColor, bg |-> NoColor, underline_color |-> NoColor,
     underline_style |-> "None", add_modifier |-> {}, sub_modifier |-> {}]

Style_fg(style, color) == [style EXCEPT !.fg = color]
Style_bg(style, color) == [style EXCEPT !.bg = color]
Style_underline_color(style, color) == [style EXCEPT !.underline_color = color]
Style_underline_style(style, us) == [style EXCEPT !.underline_style = us]
Style_add_modifier(style, m) ==
    [style EXCEPT !.add_modifier = @ \cup {m}, !.sub_modifier = @ \ {m}]

\* impl FromStr for Modifier
ModifierNames ==
    (S_bold :> "BOLD") @@ (S_dim :> "DIM") @@ (S_italic :> "ITALIC")
      @@ (S_slow_blink :> "SLOW_BLINK") @@ (S_rapid_blink :> "RAPID_BLINK")
      @@ (S_reversed :> "REVERSED") @@ (S_hidden :> "HIDDEN")
      @@ (S_crossed_out :> "CROSSED_OUT")

\* impl FromStr for UnderlineStyle
UnderlineStyleNames ==
    (S_line :> "Line") @@ (S_curl :> "Curl") @@ (S_dashed :> "Dashed")
      @@ (S_dotted :> "Dotted") @@ (S_double_line :> "DoubleLine")

\* ThemePalette::parse_modifier
parse_modifier(value) ==
    IF value.kind = "String" /\ value.v \in DOMAIN ModifierNames
    THEN Ok(ModifierNames[value.v])
    ELSE Err("invalid modifier", value)

\* ThemePalette::parse_underline_style
parse_underline_style(value) ==
    IF value.kind = "String" /\ value.v \in DOMAIN UnderlineStyleNames
    THEN Ok(UnderlineStyleNames[value.v])
    ELSE Err("invalid underline style", value)

\* The outcome of parse_style: the result and the style as the call left it.
Parsed(res, style) == [res |-> res, style |-> style]

\* parse_style, the `modifiers` array, item by item.
RECURSIVE ParseModifiers(_, _)
\* Mutant: a modifier replaces the ones read before it.
AddModifier_replaces(items, style, m) ==
    IF m.tag # "Ok" THEN Parsed(m, style)
    ELSE ParseModifiers(Tail(items), [style EXCEPT !.add_modifier = {m.val}])

AddModifier(items, style, m) ==
    IF m.tag # "Ok" THEN Parsed(m, style)
    ELSE ParseModifiers(Tail(items), Style_add_modifier(style, m.val))

ParseModifiers(items, style) ==
    IF items = <<>> THEN Parsed(Ok(<<>>), style)
    ELSE IF Head(items).kind = "String" /\ Head(items).v = S_underlined
    THEN ParseModifiers(Tail(items), Style_underline_style(style, "Line"))
    ELSE AddModifier(items, style, parse_modifier(Head(items)))

\* parse_style, the `underline` table: `color`, then `style`, then no other key.
UnderlineRest(table, style) ==
    IF DOMAIN table \ {S_color, S_style} # {}
    THEN Parsed(Err("invalid underline attribute",
                    Head(SortedKeys(DOMAIN table \ {S_color, S_style}))), style)
    ELSE Parsed(Ok(<<>>), style)

SetUnderlineStyle(table, style, us) ==
    IF us.tag # "Ok" THEN Parsed(us, style)
    ELSE UnderlineRest(table, Style_underline_style(style, us.val))

UnderlineStyleOf(table, style) ==
    IF S_style \in DOMAIN table
    THEN SetUnderlineStyle(table, style, parse_underline_style(table[S_style]))
    ELSE UnderlineRest(table, style)

SetUnderlineColor(table, style, color) ==
    IF color.tag # "Ok" THEN Parsed(color, style)
    ELSE UnderlineStyleOf(table, Style_underline_color(style, color.val))

ParseUnderline(pal, value, style) ==
    IF value.kind # "Table" THEN Parsed(Err("underline must be table", <<>>), style)
    ELSE IF S_color \in DOMAIN value.v
    THEN SetUnderlineColor(value.v, style, parse_color(pal, value.v[S_color]))
    ELSE UnderlineStyleOf(value.v, style)

\* *style = style.fg(self.parse_color(value)?)
SetFg(style, color) ==
    IF color.tag = "Ok" THEN Parsed(Ok(<<>>), Style_fg(style, color.val))
    ELSE Parsed(color, style)

\* *style = style.bg(self.parse_color(value)?)
SetBg(style, color) ==
    IF color.tag = "Ok" THEN Parsed(Ok(<<>>), Style_bg(style, color.val))
    ELSE Parsed(color, style)

\* parse_style, one attribute of the table.
ParseAttribute(pal, name, value, style) ==
    IF name = S_fg THEN SetFg(style, parse_color(pal, value))
    ELSE IF name = S_bg THEN SetBg(style, parse_color(pal, value))
    ELSE IF name = S_underline THEN ParseUnderline(pal, value, style)
    ELSE IF name = S_modifiers
    THEN IF value.kind # "Array" THEN Parsed(Err("modifiers should be an array", <<>>), style)
         ELSE ParseModifiers(value.v, style)
    ELSE Parsed(Err("invalid style attribute", name), style)

\* parse_style, the attributes of the table in map order, up to the first failure.
RECURSIVE ParseAttributes(_, _, _, _)
NextAttribute(pal, entries, keys, one) ==
    IF one.res.tag # "Ok" THEN one
    ELSE ParseAttributes(pal, entries, Tail(keys), one.style)

ParseAttributes(pal, entries, keys, style) ==
    IF keys = <<>> THEN Parsed(Ok(<<>>), style)
    ELSE NextAttribute(pal, entries, keys,
                       ParseAttribute(pal, Head(keys), entries[Head(keys)], style))

\* ThemePalette::parse_style
parse_style(pal, style, value) ==
    IF value.kind = "Table"
    THEN ParseAttributes(pal, value.v, SortedKeys(DOMAIN value.v), style)
    ELSE SetFg(style, parse_color(pal, value))

(***************************************************************************)
(* Theme                                                                   *)
(***************************************************************************)
S_palette == <<"p","a","l","e","t","t","e">>
S_inherits == <<"i","n","h","e","r","i","t","s">>

\* impl Default for Theme (derived): the empty name and no entries.
DefaultTheme == [name |-> <<>>, styles |-> EmptyMap, scopes |-> <<>>, highlights |-> <<>>]

\* build_theme_values, the loop over the entries in map order.  Each entry
\* starts from the default style; a failed entry keeps what was parsed.
RECURSIVE BuildEntries(_, _, _, _)

\* Mutant: a failed entry is pushed to highlights as the default style.
PushEntry_reset_failed(pal, values, keys, acc, parsed) ==
    IF parsed.res.tag = "Panic" THEN Panic
    ELSE BuildEntries(pal, values, Tail(keys),
            [styles |-> MapInsert(acc.styles, Head(keys), parsed.style),
             scopes |-> Append(acc.scopes, Head(keys)),
             highlights |-> Append(acc.highlights,
                IF parsed.res.tag = "Ok" THEN parsed.style ELSE DefaultStyle)])

\* build_theme_values, lines 211-214: the entry goes to styles, scopes and highlights.
PushEntry(pal, values, keys, acc, parsed) ==
    IF parsed.res.tag = "Panic" THEN Panic
    ELSE BuildEntries(pal, values, Tail(keys),
            [styles |-> MapInsert(acc.styles, Head(keys), parsed.style),
             scopes |-> Append(acc.scopes, Head(keys)),
             highlights |-> Append(acc.highlights, parsed.style)])

BuildEntries(pal, values, keys, acc) ==
    IF keys = <<>> THEN Ok(acc)
    ELSE PushEntry(pal, values, keys, acc, parse_style(pal, DefaultStyle, values[Head(keys)]))

\* build_theme_values, the palette of the document.
DocumentPalette(values) ==
    IF S_palette \in DOMAIN values THEN PaletteOrDefault(values[S_palette])
    ELSE Ok(DefaultPalette)

\* build_theme_values, the entries left without `palette` and `inherits`.
ScopeEntries(values) == MapRemove(MapRemove(values, S_palette), S_inherits)

BuildWith(pal, rest) ==
    IF pal.tag = "Panic" THEN Panic
    ELSE BuildEntries(pal.val, rest, SortedKeys(DOMAIN rest),
                      [styles |-> EmptyMap, scopes |-> <<>>, highlights |-> <<>>])

\* build_theme_values
build_theme_values(values) == BuildWith(DocumentPalette(values), ScopeEntries(values))

\* Self { styles, scopes, highlights, ..Default::default() }
ThemeOf(built) ==
    IF built.tag = "Panic" THEN Panic
    ELSE Ok([name |-> DefaultTheme.name, styles |-> built.val.styles,
             scopes |-> built.val.scopes, highlights |-> built.val.highlights])

\* Mutant: a document that is no table is not expected and unwinds.
Theme_from_table_only(value) ==
    IF value.kind = "Table" THEN ThemeOf(build_theme_values(value.v)) ELSE Panic

\* impl From<Value> for Theme
Theme_from(value) ==
    IF value.kind = "Table" THEN ThemeOf(build_theme_values(value.v)) ELSE Ok(DefaultTheme)

\* Mutant: the string is split at the first occurrence (split_once).
rsplit_once_first(s, c) ==
    IF \E i \in 1..Len(s) : s[i] = c
    THEN LET i == CHOOSE j \in 1..Len(s) : s[j] = c /\ \A k \in 1..(j - 1) : s[k] # c
         IN  Some(<<SubSeq(s, 1, i - 1), SubSeq(s, i + 1, Len(s))>>)
    ELSE None

\* str::rsplit_once on a character: the parts before and after its last occurrence.
rsplit_once(s, c) ==
    IF \E i \in 1..Len(s) : s[i] = c
    THEN LET i == CHOOSE j \in 1..Len(s) : s[j] = c /\ \A k \in (j + 1)..Len(s) : s[k] # c
         IN  Some(<<SubSeq(s, 1, i - 1), SubSeq(s, i + 1, Len(s))>>)
    ELSE None

\* Theme::try_get: the scope, then ever broader scopes, the first that is defined.
RECURSIVE try_get(_, _)
Broader(t, split) == IF split.some THEN try_get(t, split.v[1]) ELSE None

try_get(t, scope) ==
    IF scope \in DOMAIN t.styles THEN Some(t.styles[scope])
    ELSE Broader(t, rsplit_once(scope, "."))

\* Theme::try_get_exact
try_get_exact(t, scope) ==
    IF scope \in DOMAIN t.styles THEN Some(t.styles[scope]) ELSE None

\* Option<Style>::unwrap_or_default
unwrap_or_default(option) == IF option.some THEN option.v ELSE DefaultStyle

\* Mutant: the scope is looked up without the fallback to broader scopes.
get_exact_only(t, scope) == unwrap_or_default(try_get_exact(t, scope))

\* Theme::get
get(t, scope) == unwrap_or_default(try_get(t, scope))

\* matches!(color, Some(Color::Rgb(..)))
IsRgb(color) == color.tag = "Rgb"

\* Mutant: only the foreground is looked at.
is_16_color_fg_only(t) == \A scope \in DOMAIN t.styles : ~IsRgb(t.styles[scope].fg)

\* Theme::is_16_color
is_16_color(t) ==
    \A scope \in DOMAIN t.styles :
        \A color \in {t.styles[scope].fg, t.styles[scope].bg} : ~IsRgb(color)

\* Mutant: the theme keeps the name Theme::from gave it.
WithName_keeps(name, t) == t

\* Loader::load, lines 81-84: the theme under the requested name.
WithName(name, t) == IF t.tag # "Ok" THEN t ELSE Ok([t.val EXCEPT !.name = name])

\* Loader::load for a name that is not built in, given what load_flavor returned.
Loader_load(name, flavor) ==
    IF flavor.tag # "Ok" THEN flavor ELSE WithName(name, Theme_from(flavor.val))

\* once_cell::sync::Lazy: a cell is uninit, running its closure, or init and
\* holding the value; inits counts the runs of the closure.
Uninit == [state |-> "uninit", value |-> DefaultTheme, inits |-> 0]
NoLazy == [DEFAULT_THEME |-> Uninit, BASE16_DEFAULT_THEME |-> Uninit]

NoCall == [op |-> "", with |-> <<>>]
NoRet == [tag |-> "None", val |-> <<>>, why |-> NoErr]

(***************************************************************************)
(* Inputs: colour tokens and palette tables                                *)
(***************************************************************************)
Chunks == {<<"#">>, <<"f","f">>, <<"0","A">>, <<"+","7">>, <<"0","g">>, <<"é">>, <<"1","é">>}

RECURSIVE ChunkStrings(_)
ChunkStrings(n) ==
    IF n = 0 THEN {<<>>}
    ELSE LET shorter == ChunkStrings(n - 1)
         IN  shorter \cup {s \o c : s \in shorter, c \in Chunks}

S_my == <<"m","y">>
S_hexname == <<"#","f","f","0","A","f","f">>
S_hexA == <<"#","0","A","f","f","0","A">>
S_hexB == <<"#","0","0","0","0","f","f">>
S_hexC == <<"#","7","c","0","0","9","E">>
S_hexPlus == <<"#","+","7","+","7","+","7">>
S_hexSplit == <<"#","1","é","f","f","f","f">>

\* Names a document palette may define: a built-in name, a new name and a
\* name that reads like a hex code; each with its own colour.
PaletteNames == {S_red, S_my, S_hexname}
PaletteHex == (S_red :> S_hexA) @@ (S_my :> S_hexB) @@ (S_hexname :> S_hexC)

PaletteTables ==
    {VTable([n \in names |-> VString(PaletteHex[n])]) : names \in SUBSET PaletteNames}

\* Palettes with an entry that is no literal hex string, and a palette that is no table.
OddPalettes ==
    { VTable((S_my :> VString(S_red))),
      VTable((S_my :> VInteger(7)) @@ (S_red :> VString(S_hexA))),
      VTable((S_my :> VString(S_hexB)) @@ (S_red :> VString(S_hexSplit))),
      VTable((S_my :> VString(S_hexPlus))),
      VString(S_hexA) }

Tokens == ChunkStrings(MaxChunks) \cup PaletteNames \cup {S_blue, S_light \o S_gray, S_hexA, S_hexC}

(***************************************************************************)
(* SpecColor: a palette is built from the document's `palette` value, then *)
(* colour tokens are resolved against it.                                  *)
(***************************************************************************)
InitColor ==
    /\ pc = "start"
    /\ input \in PaletteTables \cup OddPalettes
    /\ palette = Ok(DefaultPalette)
    /\ theme = DefaultTheme
    /\ call = NoCall
    /\ ret = NoRet
    /\ lazy = NoLazy
    /\ lookups = <<>>

\* build_theme_values, lines 191-199, on the `palette` value of a document.
PaletteBuilt(p) ==
    /\ palette' = p
    /\ pc' = IF p.tag = "Panic" THEN "panicked" ELSE "palette"

BuildPalette ==
    /\ pc = "start"
    /\ PaletteBuilt(PaletteOrDefault(input))
    /\ UNCHANGED <<input, theme, call, ret, lazy, lookups>>

\* ThemePalette::parse_color on a string token.
ParseColor ==
    /\ pc = "palette"
    /\ \E tok \in Tokens :
          /\ call' = [op |-> "parse_color", with |-> VString(tok)]
          /\ ret' = parse_color(palette.val, VString(tok))
    /\ pc' = "resolved"
    /\ UNCHANGED <<input, palette, theme, lazy, lookups>>

NextColor == BuildPalette \/ ParseColor

SpecColor == InitColor /\ [][NextColor]_vars

(***************************************************************************)
(* What the claims call a hex code, read character by character.           *)
(***************************************************************************)
HexLower == <<"0","1","2","3","4","5","6","7","8","9","a","b","c","d","e","f">>
HexUpper == <<"0","1","2","3","4","5","6","7","8","9","A","B","C","D","E","F">>
HexChars == Range(HexLower) \cup Range(HexUpper)
HexVal(c) == (CHOOSE i \in 1..Len(HexLower) : HexLower[i] = c \/ HexUpper[i] = c) - 1
PairVal(hi, lo) == HexVal(hi) * Len(HexLower) + HexVal(lo)

\* '#' followed by at least six hex digits.
HashHex6(tok) == Len(tok) >= 7 /\ tok[1] = "#" /\ \A i \in 2..7 : tok[i] \in HexChars
\* '#' followed by exactly six hex digits RRGGBB.
HexLiteral(tok) == Len(tok) = 7 /\ HashHex6(tok)
HexColour(tok) == Rgb(PairVal(tok[2], tok[3]), PairVal(tok[4], tok[5]), PairVal(tok[6], tok[7]))

Resolved == pc = "resolved" /\ call.op = "parse_color"
AllEntriesLiteral(pal) ==
    /\ pal.kind = "Table"
    /\ \A n \in DOMAIN pal.v : pal.v[n].kind = "String" /\ HexLiteral(pal.v[n].v)

\* C7: a token naming an entry of the document's palette resolves to that
\* entry's colour, also when the name is a built-in one; a built-in name the
\* document's palette does not define resolves to its built-in colour.
C7_DocumentPaletteOverridesBuiltin ==
    Resolved =>
        LET tok == call.with.v IN
        /\ (AllEntriesLiteral(input) /\ tok \in DOMAIN input.v)
              => ret = Ok(HexColour(input.v[tok].v))
        /\ (tok \in DOMAIN DefaultPalette /\ (input.kind = "Table" => tok \notin DOMAIN input.v))
              => ret = Ok(DefaultPalette[tok])

\* The document redefines `red`, and the token `red` resolved to the document's colour.
C7_Witness ==
    /\ Resolved /\ AllEntriesLiteral(input)
    /\ call.with.v = S_red /\ S_red \in DOMAIN input.v
    /\ ret = Ok(Rgb(10, 255, 10))

\* C9: a string token that is neither a palette name nor '#' followed by at
\* least six hex digits resolves to the malformed-hexcode error carrying the
\* token (no colour, no panic).
C9_MalformedTokenIsRejected ==
    (Resolved /\ call.with.v \notin DOMAIN palette.val /\ ~HashHex6(call.with.v))
        => ret = Err("malformed hexcode", call.with.v)

\* C10: '#' followed by six hex digits, not a palette name, resolves to the
\* RGB colour of its three byte pairs.
C10_HexLiteralResolvesToItsBytes ==
    (Resolved /\ HexLiteral(call.with.v) /\ call.with.v \notin DOMAIN palette.val)
        => ret = Ok(HexColour(call.with.v))

\* `#ff0Aff` was resolved against a palette that does not name it.
C10_Witness ==
    /\ Resolved /\ call.with.v = S_hexname /\ S_hexname \notin DOMAIN palette.val
    /\ ret = Ok(Rgb(255, 10, 255))

(***************************************************************************)
(* Inputs: documents                                                       *)
(***************************************************************************)
S_a == <<"a">>
S_b == <<"b">>
S_a_dot == <<"a", ".">>
S_a_b == <<"a", ".", "b">>
S_empty == <<>>
S_notacolor == <<"#", "0", "g">>

\* Scope names a document may define.
ScopePool == {S_a, S_a_b, S_a_dot, S_empty, S_b}
BuildPool == {S_a, S_a_b, S_b}

V_named == VString(S_red)
V_rgb == VString(S_hexA)
V_my == VString(S_my)
V_bad == VString(S_notacolor)
V_split == VString(S_hexSplit)
V_int == VInteger(1)
V_table == VTable((S_fg :> V_my) @@ (S_bg :> VString(S_hexB))
                   @@ (S_modifiers :> VArray(<<VString(S_bold), VString(S_underlined)>>)))
V_partial == VTable((S_bg :> V_named) @@ (S_fg :> V_bad)
                   @@ (S_modifiers :> VArray(<<VString(S_bold)>>)))
V_underline == VTable((S_underline :> VTable((S_color :> V_named) @@ (S_style :> VString(S_curl)))))

StyleValues == {V_named, V_rgb, V_my, V_bad, V_split, V_int, V_table, V_partial, V_underline}

\* `palette` values: well formed, with a reference to another name, with a
\* hex code split inside a character, with signed byte pairs.
P_good == VTable((S_my :> VString(S_hexB)) @@ (S_red :> VString(S_hexA)))
P_chained == VTable((S_my :> VString(S_red)))
P_split == VTable((S_my :> VString(S_hexB)) @@ (S_red :> VString(S_hexSplit)))
P_plus == VTable((S_my :> VString(S_hexPlus)))
DocPalettes == {P_good, P_chained, P_split, P_plus}

ScopeTables(pool, values) ==
    UNION {[keys -> values] : keys \in {k \in SUBSET pool : Cardinality(k) <= MaxEntries}}

WithPalette(map) == {map} \cup {MapInsert(map, S_palette, p) : p \in DocPalettes}
WithInherits(map) == {map, MapInsert(map, S_inherits, VString(S_my))}

Documents ==
    {VTable(d) : d \in UNION {WithInherits(m) :
                     m \in UNION {WithPalette(t) : t \in ScopeTables(BuildPool, StyleValues)}}}

NotTables == {VString(S_red), VInteger(1), VArray(<<V_named>>)}

S_mytheme == <<"m", "y", "t", "h", "e", "m", "e">>

(***************************************************************************)
(* Spec: a theme is loaded by name (Loader::load) or deserialized from a   *)
(* document.  load_flavor, the collaborator that finds and merges the      *)
(* files, has returned a document or an error.                             *)
(***************************************************************************)
Init ==
    /\ pc = "start"
    /\ input \in [name : {S_mytheme},
                  flavor : {Ok(d) : d \in Documents \cup NotTables}
                             \cup {Err("not found", S_mytheme)}]
    /\ palette = Ok(DefaultPalette)
    /\ theme = DefaultTheme
    /\ call = NoCall
    /\ ret = NoRet
    /\ lazy = NoLazy
    /\ lookups = <<>>

\* What the caller of load or deserialize is left with.
Returned(t, done) ==
    /\ ret' = IF t.tag = "Ok" THEN Ok(<<>>) ELSE t
    /\ theme' = IF t.tag = "Ok" THEN t.val ELSE theme
    /\ pc' = CASE t.tag = "Ok" -> done
               [] t.tag = "Err" -> "failed"
               [] t.tag = "Panic" -> "panicked"

\* Loader::load
Load ==
    /\ pc = "start"
    /\ Returned(Loader_load(input.name, input.flavor), "loaded")
    /\ call' = [op |-> "load", with |-> input.name]
    /\ UNCHANGED <<input, palette, lazy, lookups>>

\* impl Deserialize for Theme: the document is a map.
Deserialize ==
    /\ pc = "start"
    /\ input.flavor.tag = "Ok"
    /\ input.flavor.val.kind = "Table"
    /\ Returned(ThemeOf(build_theme_values(input.flavor.val.v)), "deserialized")
    /\ call' = [op |-> "deserialize", with |-> <<>>]
    /\ UNCHANGED <<input, palette, lazy, lookups>>

\* Theme::is_16_color on the theme that was built.
Is16Color ==
    /\ pc \in {"loaded", "deserialized"}
    /\ call' = [op |-> "is_16_color", with |-> <<>>]
    /\ ret' = Ok(is_16_color(theme))
    /\ pc' = "asked"
    /\ UNCHANGED <<input, palette, theme, lazy, lookups>>

Next == Load \/ Deserialize \/ Is16Color

Spec == Init /\ [][Next]_vars

(***************************************************************************)
(* Claims on the built Theme                                               *)
(***************************************************************************)
Built == pc \in {"loaded", "deserialized"}
FromTable == pc # "start" /\ input.flavor.tag = "Ok" /\ input.flavor.val.kind = "Table"
ScopeKeys(doc) == DOMAIN doc.v \ {S_palette, S_inherits}

\* C1: in every built Theme scopes and highlights have the same length,
\* styles[scopes[i]] = highlights[i] for every index i, and the keys of
\* styles are the names in scopes.
C1_ScopesHighlightsStylesAgree ==
    Built =>
        /\ Len(theme.scopes) = Len(theme.highlights)
        /\ \A i \in 1..Len(theme.scopes) :
              /\ theme.scopes[i] \in DOMAIN theme.styles
              /\ theme.styles[theme.scopes[i]] = theme.highlights[i]
        /\ DOMAIN theme.styles = Range(theme.scopes)

\* A theme of two entries was built, one of them from a table whose `fg` failed.
C1_Witness ==
    /\ Built /\ FromTable
    /\ Len(theme.scopes) = 2
    /\ \E k \in ScopeKeys(input.flavor.val) : input.flavor.val.v[k] = V_partial
    /\ theme.highlights[1] # theme.highlights[2]

\* An entry that parses against the palette of its document.
WellFormed(doc, k) ==
    parse_style(DocumentPalette(doc.v).val, DefaultStyle, doc.v[k]).res.tag = "Ok"
\* The document without its malformed entries.
WellFormedPart(doc) ==
    VTable([k \in {x \in DOMAIN doc.v : x \in {S_palette, S_inherits} \/ WellFormed(doc, x)}
              |-> doc.v[k]])

\* C5: every table document yields a Theme that holds every top-level key
\* other than `palette` and `inherits`, in styles and in scopes, and gives
\* each well-formed entry the style it has without the malformed entries.
C5_EveryEntryIsBuilt ==
    FromTable =>
        LET doc == input.flavor.val IN
        /\ Built
        /\ DOMAIN theme.styles = ScopeKeys(doc)
        /\ Range(theme.scopes) = ScopeKeys(doc)
        /\ \A k \in ScopeKeys(doc) :
              WellFormed(doc, k) => theme.styles[k] = Theme_from(WellFormedPart(doc)).val.styles[k]

\* C6 as stated: loading a document that is no table gives the caller an error.
C6_NotATableFailsTheLoad ==
    (pc # "start" /\ call.op = "load" /\ input.flavor.tag = "Ok"
        /\ input.flavor.val.kind # "Table")
        => ret.tag = "Err"

\* C6 amended: loading a document that is no table succeeds with the empty
\* Theme (no styles, scopes or highlights) under the requested name.
C6_NotATableLoadsTheEmptyTheme ==
    (pc # "start" /\ call.op = "load" /\ input.flavor.tag = "Ok"
        /\ input.flavor.val.kind # "Table")
        => /\ pc = "loaded"
           /\ ret = Ok(<<>>)
           /\ theme = [DefaultTheme EXCEPT !.name = input.name]

\* A string document was loaded.
C6_Witness ==
    /\ pc = "loaded" /\ call.op = "load"
    /\ input.flavor.tag = "Ok" /\ input.flavor.val.kind = "String"
    /\ theme.styles = EmptyMap /\ theme.name = S_mytheme

\* The `palette` of the document is a table with an entry that is no literal hex string.
PaletteFails(doc) ==
    /\ S_palette \in DOMAIN doc.v
    /\ doc.v[S_palette].kind = "Table"
    /\ \E n \in DOMAIN doc.v[S_palette].v :
          LET e == doc.v[S_palette].v[n] IN ~(e.kind = "String" /\ HexLiteral(e.v))

\* C8: when the `palette` fails to parse the build does not fail; it goes on
\* with the built-in palette, so the Theme is the one the document gives
\* without its `palette`, and every scope entry is built.
C8_BadPaletteFallsBackToBuiltin ==
    (FromTable /\ PaletteFails(input.flavor.val)) =>
        LET doc == input.flavor.val IN
        /\ Built
        /\ DOMAIN theme.styles = ScopeKeys(doc)
        /\ theme.styles = Theme_from(VTable(MapRemove(doc.v, S_palette))).val.styles

\* C11: is_16_color is true exactly when no style of the theme has an RGB
\* foreground or an RGB background; a document whose entries are built-in
\* colour names gives true, and a document with an entry that is a hex
\* literal (which becomes an RGB foreground) gives false.
C11_SixteenColorIffNoRgb ==
    (pc = "asked" /\ call.op = "is_16_color") =>
        LET doc == input.flavor.val IN
        /\ ret.val = TRUE <=>
              ~\E k \in DOMAIN theme.styles :
                  \/ theme.styles[k].fg \notin {NoColor} \cup Range(DefaultPalette)
                  \/ theme.styles[k].bg \notin {NoColor} \cup Range(DefaultPalette)
        /\ (doc.kind = "Table" /\ \A k \in DOMAIN doc.v : doc.v[k] = V_named)
              => ret.val = TRUE
        /\ (doc.kind = "Table" /\ S_palette \notin DOMAIN doc.v
              /\ \E k \in ScopeKeys(doc) : doc.v[k] = V_rgb)
              => ret.val = FALSE

\* A theme whose only RGB colour is a background was asked, and said no.
C11_Witness ==
    /\ pc = "asked" /\ call.op = "is_16_color"
    /\ \E k \in DOMAIN theme.styles : theme.styles[k].bg = Rgb(0, 0, 255)
    /\ \A k \in DOMAIN theme.styles : theme.styles[k].fg \in {NoColor} \cup Range(DefaultPalette)
    /\ ret.val = FALSE

(***************************************************************************)
(* SpecLookup: a theme is loaded, then a scope is looked up in it.         *)
(***************************************************************************)
\* Each scope name of the pool with a style of its own.
LookupValue ==
    (S_a :> V_named) @@ (S_a_b :> V_rgb) @@ (S_a_dot :> VString(S_blue))
      @@ (S_empty :> VString(S_hexB)) @@ (S_b :> V_underline)

LookupDocuments ==
    {VTable([k \in keys |-> LookupValue[k]]) :
        keys \in {k \in SUBSET ScopePool : Cardinality(k) <= MaxEntries}}

RECURSIVE Strings(_, _)
Strings(alphabet, n) ==
    IF n = 0 THEN {<<>>}
    ELSE LET shorter == Strings(alphabet, n - 1)
         IN  shorter \cup {Append(s, c) : s \in shorter, c \in alphabet}

Scopes == Strings({"a", "b", "."}, MaxScopeLen)

InitLookup ==
    /\ pc = "start"
    /\ input \in [name : {S_mytheme}, flavor : {Ok(d) : d \in LookupDocuments}]
    /\ palette = Ok(DefaultPalette)
    /\ theme = DefaultTheme
    /\ call = NoCall
    /\ ret = NoRet
    /\ lazy = NoLazy
    /\ lookups = <<>>

\* Theme::try_get
TryGet ==
    /\ pc = "loaded"
    /\ \E scope \in Scopes :
          /\ call' = [op |-> "try_get", with |-> scope]
          /\ ret' = try_get(theme, scope)
    /\ pc' = "queried"
    /\ UNCHANGED <<input, palette, theme, lazy, lookups>>

\* Theme::try_get_exact
TryGetExact ==
    /\ pc = "loaded"
    /\ \E scope \in Scopes :
          /\ call' = [op |-> "try_get_exact", with |-> scope]
          /\ ret' = try_get_exact(theme, scope)
    /\ pc' = "queried"
    /\ UNCHANGED <<input, palette, theme, lazy, lookups>>

\* Theme::get, as the statusline asks for its styles.
Get ==
    /\ pc = "loaded"
    /\ \E scope \in Scopes :
          /\ call' = [op |-> "get", with |-> scope]
          /\ ret' = get(theme, scope)
    /\ pc' = "queried"
    /\ UNCHANGED <<input, palette, theme, lazy, lookups>>

NextLookup == Load \/ TryGet \/ TryGetExact \/ Get

SpecLookup == InitLookup /\ [][NextLookup]_vars

\* The scope itself and what is left of it before each of its dots.
DotPrefixes(scope) ==
    {scope} \cup {SubSeq(scope, 1, i - 1) : i \in {j \in 1..Len(scope) : scope[j] = "."}}
DefinedPrefixes(scope) == DotPrefixes(scope) \cap DOMAIN theme.styles
Longest(strings) == CHOOSE p \in strings : \A q \in strings : Len(q) <= Len(p)

\* C2: try_get returns the style of the longest dot-delimited prefix of the
\* scope (the scope included) that is a key of styles, and None exactly when
\* no such prefix is a key; try_get_exact returns a style only for a key.
C2_FallbackIsLongestDefinedPrefix ==
    /\ (pc = "queried" /\ call.op = "try_get") =>
          ret = IF DefinedPrefixes(call.with) = {} THEN None
                ELSE Some(theme.styles[Longest(DefinedPrefixes(call.with))])
    /\ (pc = "queried" /\ call.op = "try_get_exact") =>
          /\ ret.some <=> call.with \in DOMAIN theme.styles
          /\ ret.some => ret.v = theme.styles[call.with]

\* `a.b.` was looked up in a theme defining `a` and `a.b`: the style of `a.b`.
C2_Witness ==
    /\ pc = "queried" /\ call.op = "try_get"
    /\ call.with = <<"a", ".", "b", ".">>
    /\ DOMAIN theme.styles = {S_a, S_a_b}
    /\ ret = Some(theme.styles[S_a_b])
    /\ ret # Some(theme.styles[S_a])

\* C14: get returns a style for every scope string: the style try_get finds,
\* that of the longest defined dot-prefix, and the default Style when neither
\* the scope nor any of its dot-prefixes is defined.
C14_GetFallsBackToDefaultStyle ==
    (pc = "queried" /\ call.op = "get") =>
        /\ ret = IF DefinedPrefixes(call.with) = {} THEN DefaultStyle
                 ELSE theme.styles[Longest(DefinedPrefixes(call.with))]
        /\ ret \in Range(theme.styles) \cup {DefaultStyle}
        /\ DOMAIN ret = DOMAIN DefaultStyle

\* `a.b.` was asked of a theme that defines `a` and `b`: the style of `a`.
C14_Witness ==
    /\ pc = "queried" /\ call.op = "get"
    /\ call.with = <<"a", ".", "b", ".">>
    /\ DOMAIN theme.styles = {S_a, S_b}
    /\ ret = theme.styles[S_a]
    /\ ret # DefaultStyle

(***************************************************************************)
(* Inheritance merger                                                      *)
(***************************************************************************)
\* helix_loader::merge_toml_values: two tables are merged key by key while
\* the depth lasts, the right value replacing the left one otherwise.
RECURSIVE merge_toml_values(_, _, _)
merge_toml_values(left, right, merge_depth) ==
    IF left.kind = "Table" /\ right.kind = "Table" /\ merge_depth > 0
    THEN VTable([k \in DOMAIN left.v \cup DOMAIN right.v |->
                    IF k \notin DOMAIN right.v THEN left.v[k]
                    ELSE IF k \notin DOMAIN left.v THEN right.v[k]
                    ELSE merge_toml_values(left.v[k], right.v[k], merge_depth - 1)])
    ELSE right

\* toml::Value::get with a key: only a table has entries.
Value_get(value, key) ==
    IF value.kind = "Table" /\ key \in DOMAIN value.v THEN Some(value.v[key]) ELSE None

\* Mutant: the palette gets no treatment of its own.
merge_flavors_plain(parent_flavor_toml, flavor_toml) ==
    merge_toml_values(parent_flavor_toml, flavor_toml, 1)

\* Mutant: parent and flavor are taken the other way round.
merge_flavors_swapped(parent_flavor_toml, flavor_toml) ==
    LET parent_palette == Value_get(flavor_toml, S_palette)
        pal == Value_get(parent_flavor_toml, S_palette)
        palette_values ==
            IF parent_palette.some /\ pal.some
            THEN merge_toml_values(parent_palette.v, pal.v, 2)
            ELSE IF parent_palette.some THEN parent_palette.v
            ELSE IF pal.some THEN pal.v
            ELSE VTable(EmptyMap)
        flavor == merge_toml_values(flavor_toml, parent_flavor_toml, 1)
    IN  merge_toml_values(flavor, VTable((S_palette :> palette_values)), 1)

\* Mutant: the whole flavor is merged two levels deep.
merge_flavors_deep(parent_flavor_toml, flavor_toml) ==
    LET parent_palette == Value_get(parent_flavor_toml, S_palette)
        pal == Value_get(flavor_toml, S_palette)
        palette_values ==
            IF parent_palette.some /\ pal.some
            THEN merge_toml_values(parent_palette.v, pal.v, 2)
            ELSE IF parent_palette.some THEN parent_palette.v
            ELSE IF pal.some THEN pal.v
            ELSE VTable(EmptyMap)
        flavor == merge_toml_values(parent_flavor_toml, flavor_toml, 2)
    IN  merge_toml_values(flavor, VTable((S_palette :> palette_values)), 1)

\* Loader::merge_flavors
merge_flavors(parent_flavor_toml, flavor_toml) ==
    LET parent_palette == Value_get(parent_flavor_toml, S_palette)
        pal == Value_get(flavor_toml, S_palette)
        palette_values ==
            IF parent_palette.some /\ pal.some
            THEN merge_toml_values(parent_palette.v, pal.v, 2)
            ELSE IF parent_palette.some THEN parent_palette.v
            ELSE IF pal.some THEN pal.v
            ELSE VTable(EmptyMap)
        flavor == merge_toml_values(parent_flavor_toml, flavor_toml, 1)
    IN  merge_toml_values(flavor, VTable((S_palette :> palette_values)), 1)

(***************************************************************************)
(* SpecMerge: a flavor that inherits is merged into its parent.            *)
(***************************************************************************)
T_red_bold == VTable((S_fg :> V_named) @@ (S_modifiers :> VArray(<<VString(S_bold)>>)))
T_blue == VTable((S_fg :> VString(S_blue)))
MergeValues == {V_named, T_red_bold, T_blue}
MergePool == {S_a, S_b}

\* Palettes over two names; a palette that is no table.
MergePalettes ==
    {VTable(p) : p \in UNION {[names -> {VString(S_hexA), VString(S_hexB)}] :
                                names \in SUBSET {S_red, S_my}}}
      \cup {VString(S_hexA)}

WithMergePalette(map) == {map} \cup {MapInsert(map, S_palette, p) : p \in MergePalettes}

ParentFlavors ==
    {VTable(d) : d \in UNION {WithMergePalette(t) : t \in ScopeTables(MergePool, MergeValues)}}
\* The flavor that is merged names its parent.
ChildFlavors == {VTable(MapInsert(d.v, S_inherits, VString(S_mytheme))) : d \in ParentFlavors}

InitMerge ==
    /\ pc = "start"
    /\ input \in [parent : ParentFlavors, flavor : ChildFlavors]
    /\ palette = Ok(DefaultPalette)
    /\ theme = DefaultTheme
    /\ call = NoCall
    /\ ret = NoRet
    /\ lazy = NoLazy
    /\ lookups = <<>>

\* Loader::merge_flavors
MergeFlavors ==
    /\ pc = "start"
    /\ ret' = Ok(merge_flavors(input.parent, input.flavor))
    /\ call' = [op |-> "merge_flavors", with |-> <<>>]
    /\ pc' = "merged"
    /\ UNCHANGED <<input, palette, theme, lazy, lookups>>

NextMerge == MergeFlavors

SpecMerge == InitMerge /\ [][NextMerge]_vars

Merged == pc = "merged"
HasPalette(doc) == S_palette \in DOMAIN doc.v
PaletteOf(doc) == doc.v[S_palette]

C4_TopLevelKeysAreReplacedWhole ==
    Merged =>
        LET parent == input.parent
            child == input.flavor
            merged == ret.val
        IN
        /\ merged.kind = "Table"
        /\ DOMAIN merged.v \ {S_palette}
             = (DOMAIN parent.v \cup DOMAIN child.v) \ {S_palette}
        /\ \A k \in DOMAIN merged.v \ {S_palette} :
              merged.v[k] = IF k \in DOMAIN child.v THEN child.v[k] ELSE parent.v[k]

\* The parent gives `a` a red, bold style, the child a blue one: blue, not bold.
C4_Witness ==
    /\ Merged
    /\ S_a \in DOMAIN input.parent.v /\ input.parent.v[S_a] = T_red_bold
    /\ S_a \in DOMAIN input.flavor.v /\ input.flavor.v[S_a] = T_blue
    /\ ret.val.v[S_a] = T_blue
    /\ S_b \in DOMAIN input.parent.v /\ S_b \notin DOMAIN input.flavor.v
    /\ ret.val.v[S_b] = input.parent.v[S_b]

\* A map with the key when a value is chosen for it.
Optional(key, values) == {EmptyMap} \cup {(key :> v) : v \in values}

(***************************************************************************)
(* SpecChain: a theme that inherits from a theme that itself inherits.     *)
(* The documents of the chain, root ancestor first, are merged from the    *)
(* root down, each into what the documents above it gave.                  *)
(***************************************************************************)
MaxChain == 3       \* documents in an inheritance chain

ChainPalettes ==
    {VTable((S_red :> VString(S_hexA))),
     VTable((S_my :> VString(S_hexA)) @@ (S_red :> VString(S_hexB))),
     VTable((S_my :> VString(S_hexB))),
     VString(S_hexA)}

ChainDocuments ==
    {p @@ a : p \in Optional(S_palette, ChainPalettes), a \in Optional(S_a, {V_named, T_blue})}

\* Every document but the root names its parent.
Chains ==
    {[i \in 1..MaxChain |->
         VTable(IF i = 1 THEN c[i] ELSE MapInsert(c[i], S_inherits, VString(S_mytheme)))] :
       c \in [1..MaxChain -> ChainDocuments]}

\* The root ancestor is loaded: it inherits from nothing.
InitChain ==
    /\ pc = "root"
    /\ input \in Chains
    /\ palette = Ok(DefaultPalette)
    /\ theme = DefaultTheme
    /\ call = [op |-> "load_flavor", with |-> SubSeq(input, 1, 1)]
    /\ ret = Ok(input[1])
    /\ lazy = NoLazy
    /\ lookups = <<>>

\* The next document down the chain is merged into its parent, the merge of
\* the documents above it (call.with: the documents merged so far).
MergeDown ==
    /\ pc \in {"root", "chaining"}
    /\ Len(call.with) < Len(input)
    /\ ret' = Ok(merge_flavors(ret.val, input[Len(call.with) + 1]))
    /\ call' = [op |-> "merge_flavors", with |-> SubSeq(input, 1, Len(call.with) + 1)]
    /\ pc' = IF Len(call.with) + 1 = Len(input) THEN "chained" ELSE "chaining"
    /\ UNCHANGED <<input, palette, theme, lazy, lookups>>

NextChain == MergeDown

SpecChain == InitChain /\ [][NextChain]_vars

\* The documents of the chain that define the key / a palette with the name.
Defining(chain, key) == {i \in 1..Len(chain) : key \in DOMAIN chain[i].v}
Naming(chain, name) ==
    {i \in Defining(chain, S_palette) :
        chain[i].v[S_palette].kind = "Table" /\ name \in DOMAIN chain[i].v[S_palette].v}
Nearest(indices) == CHOOSE i \in indices : \A j \in indices : j <= i
ChainNames(chain) ==
    UNION {DOMAIN chain[i].v[S_palette].v : i \in {j \in Defining(chain, S_palette) :
                                                   chain[j].v[S_palette].kind = "Table"}}
ChainKeys(chain) == UNION {DOMAIN chain[i].v : i \in 1..Len(chain)} \ {S_palette}

\* Each top-level key but `palette` has the value of the nearest document that defines it.
NearestKeyWins(chain, merged) ==
    /\ merged.kind = "Table"
    /\ DOMAIN merged.v \ {S_palette} = ChainKeys(chain)
    /\ \A k \in ChainKeys(chain) : merged.v[k] = chain[Nearest(Defining(chain, k))].v[k]

\* Each name of a palette has the colour of the nearest document whose palette defines it.
NearestNameWins(chain, merged) ==
    \A n \in ChainNames(chain) :
        /\ S_palette \in DOMAIN merged.v /\ merged.v[S_palette].kind = "Table"
        /\ n \in DOMAIN merged.v[S_palette].v
        /\ merged.v[S_palette].v[n] = chain[Nearest(Naming(chain, n))].v[S_palette].v[n]

\* C17 as stated: for every chain merged from the root down, nearest wins
\* for the top-level keys and for the palette names.
C17_NearestDocumentWins ==
    NearestKeyWins(call.with, ret.val) /\ NearestNameWins(call.with, ret.val)

\* The documents after the last one whose `palette` is no table.
AfterLastOddPalette(chain) ==
    LET odd == {i \in Defining(chain, S_palette) : chain[i].v[S_palette].kind # "Table"}
    IN  IF odd = {} THEN chain ELSE SubSeq(chain, Nearest(odd) + 1, Len(chain))

\* C17, amended: nearest wins for the top-level keys; for the palette names
\* nearest wins among the documents that come after the last document whose
\* `palette` is not a table (all documents, when every palette is a table).
C17_NearestWinsPastOddPalette ==
    /\ NearestKeyWins(call.with, ret.val)
    /\ NearestNameWins(AfterLastOddPalette(call.with), ret.val)

\* Three documents: the root names `red`, the middle one `my` and `red`,
\* the last one `my`; `red` comes from the middle one, `my` from the last.
C17_Witness ==
    /\ call.op = "merge_flavors" /\ Len(call.with) = 3
    /\ \A i \in 1..3 :
          S_palette \in DOMAIN input[i].v /\ input[i].v[S_palette].kind = "Table"
    /\ Naming(call.with, S_red) = {1, 2}
    /\ Naming(call.with, S_my) = {2, 3}
    /\ ret.val.v[S_palette] = VTable((S_my :> VString(S_hexB)) @@ (S_red :> VString(S_hexB)))
    /\ Defining(call.with, S_a) = {1, 2}
    /\ ret.val.v[S_a] = input[2].v[S_a]

(***************************************************************************)
(* SpecStyle: one scope entry is parsed (parse_style on a default Style)   *)
(* or built into a theme (build_theme_values on a document that holds it). *)
(***************************************************************************)
S_z == <<"z">>
S_bogus == <<"b","o","g","u","s">>

FgValues == {V_named, V_rgb, V_my, V_bad, V_int, V_split, VString(S_hexPlus)}
BgValues == {VString(S_blue), VString(S_hexB), V_bad}
UnderlineValues ==
    {VTable((S_color :> V_named)),
     VTable((S_style :> VString(S_curl))),
     VTable((S_color :> V_rgb) @@ (S_style :> VString(S_dotted))),
     VTable((S_color :> V_bad) @@ (S_style :> VString(S_curl))),
     VTable((S_color :> V_named) @@ (S_style :> VString(S_bogus))),
     VTable((S_a :> V_named) @@ (S_color :> V_named) @@ (S_style :> VString(S_dashed))),
     VTable((S_color :> V_named) @@ (S_z :> V_named)),
     VString(S_line)}
ModifierValues ==
    {VArray(<<>>),
     VArray(<<VString(S_bold)>>),
     VArray(<<VString(S_bold), VString(S_italic), VString(S_bold)>>),
     VArray(<<VString(S_underlined)>>),
     VArray(<<VString(S_dim), VString(S_underlined), VString(S_bold)>>),
     VArray(<<VString(S_bold), VString(S_bogus), VString(S_italic)>>),
     VArray(<<VString(S_reversed), V_int, VString(S_underlined)>>),
     VString(S_bold)}
\* Keys that are no attribute: one is iterated first, one last.
UnknownValues == {S_a, S_z}

AttributeTables ==
    {VTable(f @@ b @@ u @@ m @@ x) :
        f \in Optional(S_fg, FgValues), b \in Optional(S_bg, BgValues),
        u \in Optional(S_underline, UnderlineValues),
        m \in Optional(S_modifiers, ModifierValues),
        x \in {EmptyMap} \cup {(k :> V_named) : k \in UnknownValues}}

AttributeValues == AttributeTables \cup FgValues

\* The document that holds the entry under the scope `a`.
EntryDocument == MapInsert(input.palette, S_a, input.value)

InitStyle ==
    /\ pc = "start"
    /\ input \in [palette : Optional(S_palette, {P_good}), value : AttributeValues]
    /\ palette = Ok(DefaultPalette)
    /\ theme = DefaultTheme
    /\ call = NoCall
    /\ ret = NoRet
    /\ lazy = NoLazy
    /\ lookups = <<>>

\* ThemePalette::parse_style on Style::default(), with the palette of the document.
ParseStyle ==
    /\ pc = "start"
    /\ palette' = DocumentPalette(EntryDocument)
    /\ ret' = parse_style(palette'.val, DefaultStyle, input.value)
    /\ call' = [op |-> "parse_style", with |-> input.value]
    /\ pc' = "parsed"
    /\ UNCHANGED <<input, theme, lazy, lookups>>

\* Theme::from on the document that holds the entry.
BuildScope ==
    /\ pc = "start"
    /\ palette' = DocumentPalette(EntryDocument)
    /\ Returned(Theme_from(VTable(EntryDocument)), "built")
    /\ call' = [op |-> "build", with |-> input.value]
    /\ UNCHANGED <<input, lazy, lookups>>

NextStyle == ParseStyle \/ BuildScope

SpecStyle == InitStyle /\ [][NextStyle]_vars

\* A colour token as the resolver's contract reads it: a name of the palette
\* in use, or '#' and six hex digits.
Resolves(v) == v.kind = "String" /\ (v.v \in DOMAIN palette.val \/ HashHex6(v.v))
ColourOf(v) == IF v.v \in DOMAIN palette.val THEN palette.val[v.v] ELSE HexColour(v.v)

ModifierOk(tok) == tok.kind = "String" /\ tok.v \in DOMAIN ModifierNames \cup {S_underlined}
UnderlineStyleOk(v) == v.kind = "String" /\ v.v \in DOMAIN UnderlineStyleNames

\* The number of leading tokens of a `modifiers` array that parse.
GoodTokens(items) ==
    IF \A i \in 1..Len(items) : ModifierOk(items[i]) THEN Len(items)
    ELSE (CHOOSE i \in 1..Len(items) :
            ~ModifierOk(items[i]) /\ \A j \in 1..(i - 1) : ModifierOk(items[j])) - 1

UnderlineBad(u) ==
    \/ u.kind # "Table"
    \/ /\ u.kind = "Table"
       /\ \/ S_color \in DOMAIN u.v /\ ~Resolves(u.v[S_color])
          \/ S_style \in DOMAIN u.v /\ ~UnderlineStyleOk(u.v[S_style])
          \/ DOMAIN u.v \ {S_color, S_style} # {}

\* The attribute under key k of the table does not parse.
AttrBad(t, k) ==
    CASE k = S_fg -> ~Resolves(t[k])
      [] k = S_bg -> ~Resolves(t[k])
      [] k = S_underline -> UnderlineBad(t[k])
      [] k = S_modifiers -> t[k].kind # "Array" \/ GoodTokens(t[k].v) < Len(t[k].v)
      [] OTHER -> TRUE

\* Key k is reached: no key before it, in iteration order, fails.
Reached(t, k) ==
    k \in DOMAIN t /\ \A j \in DOMAIN t \ {k} : AttrBad(t, j) => StrLess(k, j)
Applied(t, k) == Reached(t, k) /\ ~AttrBad(t, k)

\* Inside `underline`: `color` first, then `style`, then the leftover keys.
UnderlineColorSet(t) ==
    /\ Reached(t, S_underline) /\ t[S_underline].kind = "Table"
    /\ S_color \in DOMAIN t[S_underline].v /\ Resolves(t[S_underline].v[S_color])
UnderlineStyleSet(t) ==
    /\ Reached(t, S_underline) /\ t[S_underline].kind = "Table"
    /\ S_color \in DOMAIN t[S_underline].v => Resolves(t[S_underline].v[S_color])
    /\ S_style \in DOMAIN t[S_underline].v /\ UnderlineStyleOk(t[S_underline].v[S_style])
\* The tokens of `modifiers` that are processed without failing.
TokensRead(t) ==
    IF Reached(t, S_modifiers) /\ t[S_modifiers].kind = "Array"
    THEN SubSeq(t[S_modifiers].v, 1, GoodTokens(t[S_modifiers].v)) ELSE <<>>

\* The style a table of attributes leaves on a default Style: every key up
\* to the first failing one, and of that one what precedes the failure.
TableStyle(t) ==
    [fg |-> IF Applied(t, S_fg) THEN ColourOf(t[S_fg]) ELSE NoColor,
     bg |-> IF Applied(t, S_bg) THEN ColourOf(t[S_bg]) ELSE NoColor,
     underline_color |->
        IF UnderlineColorSet(t) THEN ColourOf(t[S_underline].v[S_color]) ELSE NoColor,
     underline_style |->
        IF UnderlineStyleSet(t) THEN UnderlineStyleNames[t[S_underline].v[S_style].v]
        ELSE IF VString(S_underlined) \in Range(TokensRead(t)) THEN "Line"
        ELSE "None",
     add_modifier |->
        {ModifierNames[tok.v] : tok \in Range(TokensRead(t)) \ {VString(S_underlined)}},
     sub_modifier |-> {}]

ScalarStyle(v) == [DefaultStyle EXCEPT !.fg = IF Resolves(v) THEN ColourOf(v) ELSE NoColor]
ExpectedStyle(value) ==
    IF value.kind = "Table" THEN TableStyle(value.v) ELSE ScalarStyle(value)

WellFormedValue(value) ==
    IF value.kind = "Table" THEN \A k \in DOMAIN value.v : ~AttrBad(value.v, k)
    ELSE Resolves(value)

\* C12: parse_style on a default Style with a well-formed value succeeds and
\* sets exactly what the value names: a scalar the foreground only; a table
\* the foreground from `fg`, the background from `bg`, the underline colour
\* and style from `underline`, the modifiers listed in `modifiers`, with
\* `underlined` giving the underline style Line and no modifier; every other
\* field keeps its default.
C12_WellFormedValueSetsNamedFields ==
    (pc = "parsed" /\ WellFormedValue(input.value)) =>
        /\ ret.res = Ok(<<>>)
        /\ ret.style = ExpectedStyle(input.value)
        /\ input.value.kind # "Table" =>
              ret.style = [DefaultStyle EXCEPT !.fg = ColourOf(input.value)]
        /\ \A k \in {S_fg, S_bg, S_underline, S_modifiers} :
              (input.value.kind = "Table" /\ k \notin DOMAIN input.value.v) =>
                 CASE k = S_fg -> ret.style.fg = NoColor
                   [] k = S_bg -> ret.style.bg = NoColor
                   [] k = S_underline -> ret.style.underline_color = NoColor
                   [] k = S_modifiers -> ret.style.add_modifier = {}

\* fg, bg, an underline colour and the modifiers dim, underlined, bold were parsed.
C12_Witness ==
    /\ pc = "parsed"
    /\ input.value = VTable((S_fg :> V_my) @@ (S_bg :> VString(S_blue))
                        @@ (S_underline :> VTable((S_color :> V_named)))
                        @@ (S_modifiers :> VArray(<<VString(S_dim), VString(S_underlined),
                                                    VString(S_bold)>>)))
    /\ ret.res = Ok(<<>>)
    /\ ret.style = [fg |-> Rgb(0, 0, 255), bg |-> Named("Blue"),
                    underline_color |-> Rgb(10, 255, 10), underline_style |-> "Line",
                    add_modifier |-> {"DIM", "BOLD"}, sub_modifier |-> {}]

\* C16: when the attribute table of a scope entry fails to parse at some
\* key, the build goes on and the style stored for the scope is the partial
\* style of the keys and modifier tokens before the failing one.
C16_FailedEntryKeepsPartialStyle ==
    (pc \in {"built", "panicked"} /\ input.value.kind = "Table"
        /\ ~WellFormedValue(input.value)) =>
        /\ pc = "built"
        /\ S_a \in DOMAIN theme.styles
        /\ theme.styles[S_a] = ExpectedStyle(input.value)

(***************************************************************************)
(* SpecLoader: several callers ask the Loader for themes at the same time. *)
(* The built-in themes live in Lazy cells; the other names go through      *)
(* load_flavor, which looks the name up in the theme directories and       *)
(* merges the flavor into the flavor it inherits from.                     *)
(***************************************************************************)
MaxCallers == 2     \* callers of the Loader that run at the same time

Callers == 1..MaxCallers

S_default == <<"d","e","f","a","u","l","t">>
S_base16_default == <<"b","a","s","e","1","6","_">> \o S_default
S_parent == <<"p","a","r","e","n","t">>

\* The name each Lazy cell gives its theme.
BuiltinName == [DEFAULT_THEME |-> S_default, BASE16_DEFAULT_THEME |-> S_base16_default]

\* Loader::default_data
default_data(data, name) ==
    IF name = S_default THEN Some(data.DEFAULT_THEME)
    ELSE IF name = S_base16_default THEN Some(data.BASE16_DEFAULT_THEME)
    ELSE None

\* FlavorLoader::load_flavor: the flavor of the name, merged into the flavor
\* it inherits from; a built-in parent comes from default_data.
RECURSIVE load_flavor(_, _, _)
MergeInto(parent, flavor) ==
    IF parent.tag # "Ok" THEN parent ELSE Ok(merge_flavors(parent.val, flavor))

ParentFlavor(data, files, builtin, parent_name) ==
    IF builtin.some THEN Ok(builtin.v) ELSE load_flavor(data, files, parent_name)

Inherit(data, files, flavor) ==
    IF flavor.tag # "Ok" \/ S_inherits \notin DOMAIN flavor.val.v THEN flavor
    ELSE IF flavor.val.v[S_inherits].kind # "String"
    THEN Err("expected 'inherits' to be a string", <<>>)
    ELSE MergeInto(ParentFlavor(data, files,
                                default_data(data, flavor.val.v[S_inherits].v),
                                flavor.val.v[S_inherits].v),
                   flavor.val)

load_toml(files, name) ==
    IF name \in DOMAIN files THEN Ok(files[name]) ELSE Err("not found", name)

load_flavor(data, files, name) == Inherit(data, files, load_toml(files, name))

\* The names load_flavor looks up in the theme directories, in order.
RECURSIVE FileLookups(_, _)
FileLookups(files, name) ==
    <<name>> \o
      (IF /\ name \in DOMAIN files
          /\ S_inherits \in DOMAIN files[name].v
          /\ files[name].v[S_inherits].kind = "String"
          /\ files[name].v[S_inherits].v \notin Range(BuiltinName)
       THEN FileLookups(files, files[name].v[S_inherits].v)
       ELSE <<>>)

\* The closure of the Lazy cell: Theme { name, ..Theme::from(DATA.clone()) }.
BuiltinTheme(data, cell) ==
    [Theme_from(data[cell]).val EXCEPT !.name = BuiltinName[cell]]

\* Mutant: a caller that finds the closure running runs it too.
MayInitialize_racy(cell) == cell.state # "init"

\* Lazy::force: the caller that finds the cell uninit runs the closure.
MayInitialize(cell) == cell.state = "uninit"

\* The Lazy cell a request is served from ("none": load of another name).
Target(request) ==
    CASE request.op = "default" -> "DEFAULT_THEME"
      [] request.op = "base16_default" -> "BASE16_DEFAULT_THEME"
      [] request.op = "default_theme" ->
            IF request.with = <<"true_color">> THEN "DEFAULT_THEME" ELSE "BASE16_DEFAULT_THEME"
      [] request.op = "load" ->
            IF request.with = S_default THEN "DEFAULT_THEME"
            ELSE IF request.with = S_base16_default THEN "BASE16_DEFAULT_THEME"
            ELSE "none"
      [] OTHER -> "none"

Requests ==
    {[op |-> "default", with |-> <<>>], [op |-> "base16_default", with |-> <<>>]}
      \cup {[op |-> "default_theme", with |-> tc] : tc \in {<<"true_color">>, <<"16_color">>}}
      \cup {[op |-> "load", with |-> n] : n \in {S_default, S_base16_default, S_mytheme}}

\* The embedded theme.toml and base16_theme.toml.
BuiltinData ==
    [DEFAULT_THEME |-> VTable((S_a :> V_rgb) @@ (S_b :> V_named)),
     BASE16_DEFAULT_THEME |-> VTable((S_a :> V_named))]

Inheriting(map, name) == VTable(MapInsert(map, S_inherits, VString(name)))

\* The theme directories: `mytheme` is missing, stands alone, inherits from
\* a built-in theme, or from `parent`, which is missing or inherits itself.
FileSystems ==
    {EmptyMap,
     (S_mytheme :> VTable((S_a_b :> V_named))),
     (S_mytheme :> Inheriting((S_a_b :> V_named), S_default)),
     (S_mytheme :> Inheriting((S_a_b :> V_named), S_parent)),
     (S_mytheme :> Inheriting((S_a_b :> V_named), S_parent))
        @@ (S_parent :> Inheriting((S_b :> V_rgb), S_base16_default))}

InitLoader ==
    /\ pc = [c \in Callers |-> "idle"]
    /\ input \in [data : {BuiltinData}, files : FileSystems]
    /\ palette = Ok(DefaultPalette)
    /\ theme = DefaultTheme
    /\ call = [c \in Callers |-> NoCall]
    /\ ret = [c \in Callers |-> NoRet]
    /\ lazy = NoLazy
    /\ lookups = <<>>

\* A caller calls default, base16_default, default_theme or load.
Request(c) ==
    /\ pc[c] = "idle"
    /\ \E request \in Requests : call' = [call EXCEPT ![c] = request]
    /\ pc' = [pc EXCEPT ![c] = "called"]
    /\ UNCHANGED <<input, palette, theme, ret, lazy, lookups>>

\* Lazy::force on a cell that is uninit: the caller starts the closure.
ForceInit(c) ==
    /\ pc[c] = "called" /\ Target(call[c]) # "none"
    /\ MayInitialize(lazy[Target(call[c])])
    /\ lazy' = [lazy EXCEPT ![Target(call[c])].state = "running"]
    /\ pc' = [pc EXCEPT ![c] = "initializing"]
    /\ UNCHANGED <<input, palette, theme, call, ret, lookups>>

\* The closure ends: the cell holds the theme, and the caller gets its clone.
FinishInit(c) ==
    /\ pc[c] = "initializing"
    /\ lazy' = [lazy EXCEPT ![Target(call[c])] =
                  [state |-> "init", value |-> BuiltinTheme(input.data, Target(call[c])),
                   inits |-> @.inits + 1]]
    /\ ret' = [ret EXCEPT ![c] = Ok(BuiltinTheme(input.data, Target(call[c])))]
    /\ pc' = [pc EXCEPT ![c] = "done"]
    /\ UNCHANGED <<input, palette, theme, call, lookups>>

\* Lazy::force on a cell that is init: the caller gets a clone of the value.
\* (A caller that finds the closure running waits.)
ForceRead(c) ==
    /\ pc[c] = "called" /\ Target(call[c]) # "none"
    /\ lazy[Target(call[c])].state = "init"
    /\ ret' = [ret EXCEPT ![c] = Ok(lazy[Target(call[c])].value)]
    /\ pc' = [pc EXCEPT ![c] = "done"]
    /\ UNCHANGED <<input, palette, theme, call, lazy, lookups>>

\* Loader::load of a name that is not built in.
LoadFlavor(c) ==
    /\ pc[c] = "called" /\ Target(call[c]) = "none"
    /\ ret' = [ret EXCEPT ![c] =
                 Loader_load(call[c].with, load_flavor(input.data, input.files, call[c].with))]
    /\ lookups' = lookups \o FileLookups(input.files, call[c].with)
    /\ pc' = [pc EXCEPT ![c] = "done"]
    /\ UNCHANGED <<input, palette, theme, call, lazy>>

NextLoader ==
    \E c \in Callers :
        Request(c) \/ ForceInit(c) \/ FinishInit(c) \/ ForceRead(c) \/ LoadFlavor(c)

SpecLoader == InitLoader /\ [][NextLoader]_vars

Done(c) == pc[c] = "done"
Builtin(c) == Target(call[c]) # "none"

\* C13: every theme a successful load returns carries the requested name,
\* whatever the flavor inherits from, the built-in names included.
C13_LoadedThemeHasRequestedName ==
    \A c \in Callers :
        (Done(c) /\ call[c].op = "load" /\ ret[c].tag = "Ok")
            => ret[c].val.name = call[c].with

\* `mytheme`, which inherits from `parent`, which inherits from
\* `base16_default`, and `default` were loaded.
C13_Witness ==
    /\ S_parent \in DOMAIN input.files
    /\ \E c \in Callers :
          /\ Done(c) /\ call[c] = [op |-> "load", with |-> S_mytheme]
          /\ ret[c].tag = "Ok" /\ ret[c].val.name = S_mytheme
          /\ DOMAIN ret[c].val.styles = {S_a, S_a_b, S_b}
    /\ \E c \in Callers :
          /\ Done(c) /\ call[c] = [op |-> "load", with |-> S_default]
          /\ ret[c].tag = "Ok" /\ ret[c].val.name = S_default

\* What C15 says of a state: no closure has run twice, a cell that is init
\* holds the theme of its data, every request for a built-in theme that has
\* returned returned the value of its cell, and no built-in name was looked
\* up in the theme directories.
CachedOnce ==
    /\ \A cell \in DOMAIN lazy :
          /\ lazy[cell].inits <= 1
          /\ lazy[cell].state = "init" =>
                lazy[cell].inits = 1 /\ lazy[cell].value.name = BuiltinName[cell]
    /\ \A c \in Callers :
          (Done(c) /\ Builtin(c)) =>
              /\ lazy[Target(call[c])].state = "init"
              /\ ret[c] = Ok(lazy[Target(call[c])].value)
    /\ Range(lookups) \cap Range(BuiltinName) = {}

\* What C15 says of a step: a cell that is init is not changed, and a
\* request for a built-in theme returns without a lookup.
CacheKept ==
    /\ \A cell \in DOMAIN lazy : lazy[cell].state = "init" => lazy'[cell] = lazy[cell]
    /\ \A c \in Callers : (Builtin(c) /\ ~Done(c) /\ Done(c)') => lookups' = lookups

\* C15: each built-in theme is constructed at most once, also when several
\* callers ask for it before it is initialized; every request for it
\* (default, base16_default, default_theme, load of a built-in name) returns
\* the one constructed value without a file lookup, and no later operation
\* changes the cached value.
C15_BuiltinThemesAreBuiltOnce == [](CachedOnce) /\ [][CacheKept]_vars

\* Every caller asked for the default theme, by load or by default, and got
\* the value of the cell, whose closure ran once.
C15_Witness ==
    /\ \A c \in Callers : Done(c) /\ Target(call[c]) = "DEFAULT_THEME"
    /\ \E c \in Callers : call[c].op = "load"
    /\ \E c \in Callers : call[c].op = "default"
    /\ \A c \in Callers : ret[c] = Ok(lazy.DEFAULT_THEME.value)
    /\ lazy.DEFAULT_THEME.inits = 1
    /\ lazy.DEFAULT_THEME.value.name = S_default
    /\ DOMAIN lazy.DEFAULT_THEME.value.styles = {S_a, S_b}

====
